---- MODULE Spec2Model ----
(***************************************************************************)
(* Model of the fixed-step ODE steppers (ode.py) and of the Kepler driver  *)
(* (kepler.py).                                                            *)
(*                                                                         *)
(* Numbers.  A double is modelled as a fixed-point integer: the integer n  *)
(* stands for n / SCALE.  Results are rounded toward zero, magnitudes      *)
(* beyond MaxFinite overflow to an infinity, and the IEEE special values   *)
(* are three integers outside the finite range.  Under numpy's error state *)
(* "raise" a floating-point exception (divide, invalid, overflow) raises   *)
(* FloatingPointError; it is carried in-band as the value Fault, which     *)
(* every operation propagates, and turned into the raise at the boundary   *)
(* of the function whose arithmetic produced it.                           *)
(***************************************************************************)
EXTENDS Integers, Sequences, FiniteSets, TLC

VARIABLES
    pc,         \* "idle", "loop" (inside integrate_orbit's for loop), "done"
    op,         \* the entry point being run
    args,       \* the arguments of the current call
    errstate,   \* numpy's floating-point error state: "warn" or "raise"
    heap,       \* the arrays: heap[Z0Ref] is the caller's z0 array
    z,          \* integrate_orbit's local z: a reference into heap
    t,          \* integrate_orbit's local t
    step,       \* the loop variable of integrate_orbit
    Nsteps,     \* integrate_orbit's local Nsteps
    rec,        \* the six arrays ts, Xs, Ys, KEs, PEs, TEs
    written,    \* the indices of the six arrays the driver has stored to
    stepTimes,  \* the time handed to the stepper at each of its calls
    result,     \* the outcome of the current call, once pc = "done"
    prev,       \* the outcome of the previous call with the same arguments
    ncall       \* how many times the current arguments have been used

vars == <<pc, op, args, errstate, heap, z, t, step, Nsteps, rec, written,
          stepTimes, result, prev, ncall>>

(***************************************************************************)
(* Bounds of the model.                                                    *)
(***************************************************************************)
SCALE == 100
MaxFinite == 20000
MaxTend == 4
MaxCalls == 2

ONE == SCALE
HALF == SCALE \div 2
TENTH == SCALE \div 10
PInf == MaxFinite + 1
NInf == -(MaxFinite + 1)
NaN == MaxFinite + 2
Fault == MaxFinite + 3

IsFinite(x) == x >= -MaxFinite /\ x <= MaxFinite
IsInf(x) == x = PInf \/ x = NInf
Sign(x) == IF x = PInf THEN 1 ELSE IF x = NInf THEN -1
           ELSE IF x > 0 THEN 1 ELSE IF x < 0 THEN -1 ELSE 0
Abs(x) == IF x = NInf THEN PInf ELSE IF IsFinite(x) /\ x < 0 THEN -x ELSE x
InfOf(s) == IF s < 0 THEN NInf ELSE PInf

\* int(): truncation toward zero of the quotient a / b (b # 0)
TruncDiv(a, b) ==
    LET q == (IF a < 0 THEN -a ELSE a) \div (IF b < 0 THEN -b ELSE b)
    IN  IF (a < 0) = (b < 0) THEN q ELSE -q

\* a floating-point exception: a special value with a warning, or a raise
Flag(v) == IF errstate = "raise" THEN Fault ELSE v

Sat(n) == IF n > MaxFinite THEN Flag(PInf)
          ELSE IF n < -MaxFinite THEN Flag(NInf) ELSE n

Neg(a) == IF a = Fault \/ a = NaN THEN a
          ELSE IF a = PInf THEN NInf ELSE IF a = NInf THEN PInf ELSE -a

Add(a, b) ==
    IF a = Fault \/ b = Fault THEN Fault
    ELSE IF a = NaN \/ b = NaN THEN NaN
    ELSE IF IsInf(a) /\ IsInf(b) THEN (IF a = b THEN a ELSE Flag(NaN))
    ELSE IF IsInf(a) THEN a
    ELSE IF IsInf(b) THEN b
    ELSE Sat(a + b)

Mul(a, b) ==
    IF a = Fault \/ b = Fault THEN Fault
    ELSE IF a = NaN \/ b = NaN THEN NaN
    ELSE IF IsInf(a) \/ IsInf(b)
         THEN (IF a = 0 \/ b = 0 THEN Flag(NaN) ELSE InfOf(Sign(a) * Sign(b)))
    ELSE Sat(TruncDiv(a * b, SCALE))

Div(a, b) ==
    IF a = Fault \/ b = Fault THEN Fault
    ELSE IF a = NaN \/ b = NaN THEN NaN
    ELSE IF IsInf(a) /\ IsInf(b) THEN Flag(NaN)
    ELSE IF IsInf(a) THEN InfOf(Sign(a) * (IF b < 0 THEN -1 ELSE 1))
    ELSE IF IsInf(b) THEN 0
    ELSE IF b = 0 THEN (IF a = 0 THEN Flag(NaN) ELSE Flag(InfOf(Sign(a))))
    ELSE Sat(TruncDiv(a * SCALE, b))

RECURSIVE SqrtSearch(_, _, _)
SqrtSearch(n, lo, hi) ==
    IF lo >= hi THEN lo
    ELSE LET mid == (lo + hi + 1) \div 2
         IN  IF mid * mid <= n THEN SqrtSearch(n, mid, hi)
             ELSE SqrtSearch(n, lo, mid - 1)

Sqrt(a) ==
    IF a = Fault \/ a = NaN \/ a = PInf THEN a
    ELSE IF a = NInf \/ a < 0 THEN Flag(NaN)
    ELSE SqrtSearch(a * SCALE, 0, 2000)

\* arrays of doubles
VAdd(u, w) == [i \in DOMAIN u |-> Add(u[i], w[i])]
VScale(c, u) == [i \in DOMAIN u |-> Mul(c, u[i])]
VDivS(u, c) == [i \in DOMAIN u |-> Div(u[i], c)]
HasFault(u) == \E i \in DOMAIN u : u[i] = Fault
Slice(u, lo, hi) == [i \in 1..(hi - lo + 1) |-> u[lo + i - 1]]
Dot(u, w) == Add(Mul(u[1], w[1]), Mul(u[2], w[2]))
Norm(u) == Sqrt(Dot(u, u))

(***************************************************************************)
(* kepler.py: energies and the right-hand side                             *)
(***************************************************************************)
kinetic_energy(v) == Mul(HALF, Dot(v, v))

potential_energy(x, m) == Div(Neg(m), Norm(x))

total_energyNoPE(zv, m) == kinetic_energy(Slice(zv, 3, 4))

total_energy(zv, m) ==
    Add(kinetic_energy(Slice(zv, 3, 4)), potential_energy(Slice(zv, 1, 2), m))

\* lines 96-108, given r = z[0:2], v = z[2:4] and rabs = norm(r)
derivsFrom(r, v, rabs, m) ==
    v \o VScale(Div(Neg(m), Mul(Mul(rabs, rabs), rabs)), r)

derivs(tt, zv, m) ==
    derivsFrom(Slice(zv, 1, 2), Slice(zv, 3, 4), Norm(Slice(zv, 1, 2)), m)

(***************************************************************************)
(* Outcomes of a Python call: a value, None, or a raised exception.        *)
(* ffail records that the exception was raised by the body of the          *)
(* caller-supplied f (and not by the call machinery or by the stepper).    *)
(***************************************************************************)
Val(v) == [kind |-> "val", exc |-> "", val |-> v, ffail |-> FALSE]
Raise(e, ff) == [kind |-> "raise", exc |-> e, val |-> <<>>, ffail |-> ff]
NoResult == [kind |-> "pending", exc |-> "", val |-> <<>>, ffail |-> FALSE]

\* the outcome of a stepper, with the array store it leaves behind
SVal(ref, hp) ==
    [kind |-> "val", exc |-> "", ffail |-> FALSE, ref |-> ref, heap |-> hp]
SNone(hp) ==
    [kind |-> "none", exc |-> "", ffail |-> FALSE, ref |-> 0, heap |-> hp]
SRaise(e, ff, hp) ==
    [kind |-> "raise", exc |-> e, ffail |-> ff, ref |-> 0, heap |-> hp]

\* a new array object
Alloc(hp, v) == SVal(Len(hp) + 1, Append(hp, v))

(***************************************************************************)
(* The right-hand sides a caller hands to a stepper: derivs(t, z, m) of    *)
(* kepler.py, and two functions f(t, z) without extra arguments: "decay"   *)
(* is f(t, z) = -z, "guarded" is the same but raises ValueError from       *)
(* t = 1 on.                                                               *)
(***************************************************************************)
RHS == {"derivs", "decay", "guarded"}
Arity(f) == IF f = "derivs" THEN 3 ELSE 2

\* what a call of f that computed the array d amounts to
Computed(d) ==
    IF HasFault(d) THEN Raise("FloatingPointError", TRUE) ELSE Val(d)

\* the call f(tt, zv, *extra)
CallF(f, tt, zv, extra) ==
    IF 2 + Len(extra) # Arity(f) THEN Raise("TypeError", FALSE)
    ELSE IF f = "derivs" THEN Computed(derivs(tt, zv, extra[1]))
    ELSE IF f = "guarded" /\ IsFinite(tt) /\ tt >= ONE
         THEN Raise("ValueError", TRUE)
    ELSE Val([i \in DOMAIN zv |-> Neg(zv[i])])

(***************************************************************************)
(* ode.py.  a is the args parameter: [isTuple |-> TRUE, v |-> the tuple],  *)
(* or [isTuple |-> FALSE, v |-> <<x>>] for a value x that is no tuple; zr  *)
(* is a reference to the array z in the store hp; tt and h are Python      *)
(* floats.                                                                 *)
(***************************************************************************)
\* lines 41-42: if not isinstance(args,tuple): args = (args,)
TupleOf(a) == IF a.isTuple THEN a.v ELSE <<a.v[1]>>

TWO == 2 * ONE
SIX == 6 * ONE

\* an exception raised by f leaves the stepper as it is
Propagate(r, hp) == SRaise(r.exc, r.ffail, hp)

\* the array v computed by the stepper's own arithmetic, as a new object
NewArray(v, hp) ==
    IF HasFault(v) THEN SRaise("FloatingPointError", FALSE, hp)
    ELSE Alloc(hp, v)

\* the same, stored over the array zr
SameArray(v, zr, hp) ==
    IF HasFault(v) THEN SRaise("FloatingPointError", FALSE, hp)
    ELSE SVal(zr, [hp EXCEPT ![zr] = v])

\* z += h*f(t,z,*args); return z
fEulerInPlaceFrom(r, zr, h, hp) ==
    IF r.kind = "raise" THEN Propagate(r, hp)
    ELSE SameArray(VAdd(hp[zr], VScale(h, r.val)), zr, hp)

fEulerInPlace(f, tt, zr, h, a, hp) ==
    fEulerInPlaceFrom(CallF(f, tt, hp[zr], TupleOf(a)), zr, h, hp)

\* a failure of f is swallowed and a copy of z is returned
fEulerRecoverFrom(r, zv, h, hp) ==
    IF r.kind = "raise" THEN [Alloc(hp, zv) EXCEPT !.ffail = r.ffail]
    ELSE NewArray(VAdd(zv, VScale(h, r.val)), hp)

fEulerRecover(f, tt, zr, h, a, hp) ==
    fEulerRecoverFrom(CallF(f, tt, hp[zr], TupleOf(a)), hp[zr], h, hp)

\* line 51, given the outcome r of f(t,z,*args)
fEulerFrom(r, zv, h, hp) ==
    IF r.kind = "raise" THEN Propagate(r, hp)
    ELSE NewArray(VAdd(zv, VScale(h, r.val)), hp)

fEuler(f, tt, zr, h, a, hp) ==
    fEulerFrom(CallF(f, tt, hp[zr], TupleOf(a)), hp[zr], h, hp)

\* line 87: the name zp is not defined
rk2_z_new(z_p, hp) ==
    IF HasFault(z_p) THEN SRaise("FloatingPointError", FALSE, hp)
    ELSE SRaise("NameError", FALSE, hp)

\* line 84, given the outcome r1 of f(t, z)
rk2_z_p(r1, tt, zv, h, hp) ==
    IF r1.kind = "raise" THEN Propagate(r1, hp)
    ELSE rk2_z_new(VDivS(VAdd(zv, VScale(Div(h, TWO), r1.val)),
                         Add(tt, Div(h, TWO))), hp)

rk2(f, tt, zr, h, a, hp) ==
    rk2_z_p(CallF(f, tt, hp[zr], <<>>), tt, hp[zr], h, hp)

\* the call f(ts, zarg) of a stage of rk4, zarg computed by the stepper
Stage(f, ts, zarg) ==
    IF HasFault(zarg) THEN Raise("FloatingPointError", FALSE)
    ELSE CallF(f, ts, zarg, <<>>)

\* line 127: return without a value
rk4_return(znew, hp) ==
    IF HasFault(znew) THEN SRaise("FloatingPointError", FALSE, hp)
    ELSE SNone(hp)

\* line 125, given the outcome r4 of line 122
rk4_znew(r4, k1, k2, k3, zv, h, hp) ==
    IF r4.kind = "raise" THEN Propagate(r4, hp)
    ELSE rk4_return(VAdd(zv, VScale(Div(h, SIX),
                        VAdd(VAdd(k1, VScale(TWO, k2)), VScale(TWO, k3)))),
                    hp)

\* line 122, given the outcome r3 of line 121
rk4_k4(r3, k1, k2, f, tt, zv, h, hp) ==
    IF r3.kind = "raise" THEN Propagate(r3, hp)
    ELSE rk4_znew(Stage(f, Add(tt, h), VAdd(zv, VScale(h, r3.val))),
                  k1, k2, r3.val, zv, h, hp)

\* line 121, given the outcome r2 of line 120
rk4_k3(r2, k1, f, tt, zv, h, hp) ==
    IF r2.kind = "raise" THEN Propagate(r2, hp)
    ELSE rk4_k4(Stage(f, Add(tt, Div(h, TWO)),
                      VAdd(zv, VScale(Div(h, TWO), r2.val))),
                k1, r2.val, f, tt, zv, h, hp)

\* line 120, given the outcome r1 of line 119
rk4_k2(r1, f, tt, zv, h, hp) ==
    IF r1.kind = "raise" THEN Propagate(r1, hp)
    ELSE rk4_k3(Stage(f, Add(tt, Div(h, TWO)),
                      VAdd(zv, VScale(Div(h, TWO), r1.val))),
                r1.val, f, tt, zv, h, hp)

rk4(f, tt, zr, h, a, hp) ==
    rk4_k2(CallF(f, tt, hp[zr], <<>>), f, tt, hp[zr], h, hp)

\* kepler.py: the registry of steppers
integration_methods == {"Euler", "RK2", "RK4"}

Stepper(method, f, tt, zr, h, a, hp) ==
    IF method = "Euler" THEN fEuler(f, tt, zr, h, a, hp)
    ELSE IF method = "RK2" THEN rk2(f, tt, zr, h, a, hp)
    ELSE rk4(f, tt, zr, h, a, hp)

(***************************************************************************)
(* kepler.py: integrate_orbit(z0, m, tend, h, method)                      *)
(***************************************************************************)
Z0Ref == 1

NoArgs ==
    [z0 |-> <<>>, m |-> 0, tend |-> 0, h |-> 0, method |-> "", f |-> "",
     t |-> 0, extra |-> [isTuple |-> TRUE, v |-> <<>>], a |-> 0, e |-> 0]

Zeros(n) == [i \in 0..(n - 1) |-> 0]
EmptyRec == [ts |-> <<>>, Xs |-> <<>>, Ys |-> <<>>,
             KEs |-> <<>>, PEs |-> <<>>, TEs |-> <<>>]

\* Nsteps = int(tend/h)+1 without the +1
NstepsOfNoPlusOne(tend, h) == TruncDiv(tend, h)

\* line 143 (h # 0)
NstepsOf(tend, h) == TruncDiv(tend, h) + 1

\* t is not incremented
AdvanceTimeStuck(tt, h) == tt

\* line 171
AdvanceTime(tt, h) == Add(tt, h)

\* the six stores at one index, lines 154-161 and 173-179
StoreRow(rc, i, tt, zv, m) ==
    [ts  |-> [rc.ts EXCEPT ![i] = tt],
     Xs  |-> [rc.Xs EXCEPT ![i] = zv[1]],
     Ys  |-> [rc.Ys EXCEPT ![i] = zv[2]],
     KEs |-> [rc.KEs EXCEPT ![i] = kinetic_energy(Slice(zv, 3, 4))],
     PEs |-> [rc.PEs EXCEPT ![i] = potential_energy(Slice(zv, 1, 2), m)],
     TEs |-> [rc.TEs EXCEPT ![i] = total_energy(zv, m)]]

EnergyFault(zv, m) ==
    \/ kinetic_energy(Slice(zv, 3, 4)) = Fault
    \/ potential_energy(Slice(zv, 1, 2), m) = Fault
    \/ total_energy(zv, m) = Fault

\* an exception leaves integrate_orbit: its locals are gone, the caller's
\* array stays
Unwind(r, hp) ==
    /\ pc' = "done"
    /\ result' = r
    /\ heap' = <<hp[Z0Ref]>>
    /\ z' = 0 /\ t' = 0 /\ step' = 0 /\ Nsteps' = 0
    /\ rec' = EmptyRec /\ written' = {} /\ stepTimes' = <<>>

\* lines 137-164, called with arguments a and the caller's array hp[Z0Ref]
Prologue(a, hp) ==
    LET z0v == hp[Z0Ref]
        N == NstepsOf(a.tend, a.h)
        rc == [ts |-> Zeros(N), Xs |-> Zeros(N), Ys |-> Zeros(N),
               KEs |-> Zeros(N), PEs |-> Zeros(N), TEs |-> Zeros(N)]
    IN  IF a.h = 0 THEN Unwind(Raise("ZeroDivisionError", FALSE), hp)
        ELSE IF N < 0 THEN Unwind(Raise("ValueError", FALSE), hp)
        ELSE IF N = 0 THEN Unwind(Raise("IndexError", FALSE), hp)
        ELSE IF EnergyFault(z0v, a.m)
             THEN Unwind(Raise("FloatingPointError", FALSE), hp)
        ELSE IF a.method \notin integration_methods
             THEN Unwind(Raise("KeyError", FALSE), hp)
        ELSE /\ pc' = "loop"
             /\ result' = NoResult
             /\ heap' = <<z0v>>
             /\ z' = Z0Ref
             /\ t' = 0
             /\ step' = 1
             /\ Nsteps' = N
             /\ rec' = StoreRow(rc, 0, 0, z0v, a.m)
             /\ written' = {0}
             /\ stepTimes' = <<>>

Z0Set == { <<ONE, 0, 0, ONE>>, <<ONE, 0, -ONE, 0>>, <<TENTH, 0, 0, 0>> }
MSet == {-ONE, 0, ONE}
TendSet == {k * HALF : k \in (-2)..MaxTend}
HSet == {-ONE, 0, HALF, ONE}
MethodSet == integration_methods \cup {"Leapfrog"}

\* a call integrate_orbit(z0, m, tend, h, method) by the surrounding program
IntegrateOrbit ==
    /\ pc = "idle"
    /\ \E z0v \in Z0Set, m \in MSet, tend \in TendSet, h \in HSet,
          method \in MethodSet :
          LET a == [NoArgs EXCEPT !.z0 = z0v, !.m = m, !.tend = tend,
                                  !.h = h, !.method = method]
          IN  /\ args' = a
              /\ Prologue(a, <<z0v>>)
    /\ op' = "integrate_orbit"
    /\ prev' = NoResult
    /\ ncall' = 1
    /\ UNCHANGED errstate

\* the same call once more, with the same array object as z0
IntegrateOrbitAgain ==
    /\ pc = "done"
    /\ op = "integrate_orbit"
    /\ ncall < MaxCalls
    /\ Prologue(args, heap)
    /\ prev' = result
    /\ ncall' = ncall + 1
    /\ UNCHANGED <<op, args, errstate>>

\* lines 168-179, given the outcome s of line 167
LoopBody(s) ==
    IF s.kind = "raise" THEN Unwind(Raise(s.exc, s.ffail), s.heap)
    ELSE IF s.kind = "none" THEN Unwind(Raise("TypeError", FALSE), s.heap)
    ELSE IF EnergyFault(s.heap[s.ref], args.m)
         THEN Unwind(Raise("FloatingPointError", FALSE), s.heap)
    ELSE /\ heap' = IF s.ref = Z0Ref THEN <<s.heap[Z0Ref]>>
                    ELSE <<s.heap[Z0Ref], s.heap[s.ref]>>
         /\ z' = IF s.ref = Z0Ref THEN Z0Ref ELSE 2
         /\ t' = AdvanceTime(t, args.h)
         /\ rec' = StoreRow(rec, step, AdvanceTime(t, args.h),
                            s.heap[s.ref], args.m)
         /\ written' = written \cup {step}
         /\ stepTimes' = Append(stepTimes, t)
         /\ step' = step + 1
         /\ UNCHANGED <<pc, Nsteps, result>>

\* one iteration of the for loop, lines 166-179
IntegrateOrbitLoop ==
    /\ pc = "loop"
    /\ step < Nsteps
    /\ LoopBody(Stepper(args.method, "derivs", t, z, args.h,
                        [isTuple |-> FALSE, v |-> <<args.m>>], heap))
    /\ UNCHANGED <<op, args, errstate, prev, ncall>>

\* line 180
IntegrateOrbitReturn ==
    /\ pc = "loop"
    /\ step >= Nsteps
    /\ pc' = "done"
    /\ result' = Val(rec)
    /\ UNCHANGED <<op, args, errstate, heap, z, t, step, Nsteps, rec, written,
                   stepTimes, prev, ncall>>

(***************************************************************************)
(* kepler.py: set_initial_conditions(a, m, e), called with Python floats   *)
(***************************************************************************)
\* pi/sqrt(2) = 2.2214...
PiOverSqrt2 == TruncDiv(22214 * SCALE, 10000)

\* x**(-3/2) for a Python float x > 0
PowMinusThreeHalves(x) == Div(ONE, Mul(x, Sqrt(x)))

set_initial_conditions(a, m, e) ==
    LET eps0 == Div(Neg(m), Mul(TWO, a))
        Tperiod == Mul(Mul(PiOverSqrt2, m), PowMinusThreeHalves(Abs(eps0)))
        x0 == Mul(a, Add(ONE, e))
        vy0 == Sqrt(Add(Mul(TWO, eps0), Div(Mul(TWO, m), x0)))
    IN  IF a = 0 THEN Raise("ZeroDivisionError", FALSE)
        ELSE IF eps0 = 0 THEN Raise("ZeroDivisionError", FALSE)
        ELSE IF Tperiod = Fault THEN Raise("FloatingPointError", FALSE)
        ELSE IF x0 = 0 THEN Raise("ZeroDivisionError", FALSE)
        ELSE IF vy0 = Fault THEN Raise("FloatingPointError", FALSE)
        ELSE Val([z0 |-> <<x0, 0, 0, vy0>>, eps0 |-> eps0,
                  Tperiod |-> Tperiod])

ASet == {-ONE, 0, ONE, TWO}
ESet == {-ONE, -HALF, 0, HALF, ONE, TWO}

\* a call set_initial_conditions(a, m, e) by the surrounding program
SetInitialConditions ==
    /\ pc = "idle"
    /\ \E a \in ASet, m \in MSet, e \in ESet :
          /\ args' = [NoArgs EXCEPT !.a = a, !.m = m, !.e = e]
          /\ result' = set_initial_conditions(a, m, e)
    /\ pc' = "done"
    /\ op' = "set_initial_conditions"
    /\ UNCHANGED <<errstate, heap, z, t, step, Nsteps, rec, written,
                   stepTimes, prev, ncall>>

(***************************************************************************)
(* ode.py: one call of a stepper by a caller other than integrate_orbit    *)
(***************************************************************************)
TSet == {-ONE, -HALF, 0, HALF, ONE}
ExtraSet == { [isTuple |-> TRUE, v |-> <<>>],
              [isTuple |-> TRUE, v |-> <<ONE>>],
              [isTuple |-> FALSE, v |-> <<ONE>>] }

\* what the caller of a stepper is left with
StepperOutcome(s) ==
    /\ heap' = s.heap
    /\ z' = s.ref
    /\ result' = [kind |-> s.kind, exc |-> s.exc, ffail |-> s.ffail,
                  val |-> IF s.kind = "val" THEN s.heap[s.ref] ELSE <<>>]

StepperCall ==
    /\ pc = "idle"
    /\ \E method \in integration_methods, f \in RHS, tt \in TSet,
          zv \in Z0Set, h \in HSet, x \in ExtraSet :
          /\ args' = [NoArgs EXCEPT !.method = method, !.f = f, !.t = tt,
                                    !.z0 = zv, !.h = h, !.extra = x]
          /\ StepperOutcome(Stepper(method, f, tt, Z0Ref, h, x, <<zv>>))
    /\ pc' = "done"
    /\ op' = "stepper"
    /\ UNCHANGED <<errstate, t, step, Nsteps, rec, written, stepTimes, prev,
                   ncall>>

\* the caller is done with the outcome
Reset ==
    /\ pc = "done"
    /\ pc' = "idle"
    /\ op' = "none"
    /\ args' = NoArgs
    /\ heap' = <<>>
    /\ z' = 0 /\ t' = 0 /\ step' = 0 /\ Nsteps' = 0
    /\ rec' = EmptyRec /\ written' = {} /\ stepTimes' = <<>>
    /\ result' = NoResult /\ prev' = NoResult /\ ncall' = 0
    /\ UNCHANGED errstate

Init ==
    /\ pc = "idle"
    /\ op = "none"
    /\ args = NoArgs
    /\ errstate \in {"warn", "raise"}
    /\ heap = <<>>
    /\ z = 0 /\ t = 0 /\ step = 0 /\ Nsteps = 0
    /\ rec = EmptyRec /\ written = {} /\ stepTimes = <<>>
    /\ result = NoResult /\ prev = NoResult /\ ncall = 0

Next ==
    \/ IntegrateOrbit
    \/ IntegrateOrbitAgain
    \/ IntegrateOrbitLoop
    \/ IntegrateOrbitReturn
    \/ SetInitialConditions
    \/ StepperCall
    \/ Reset

Spec == Init /\ [][Next]_vars

(***************************************************************************)
(* Properties                                                              *)
(***************************************************************************)
\* integrate_orbit has returned its six arrays
Returned == pc = "done" /\ op = "integrate_orbit" /\ result.kind = "val"

Columns(r) == <<r.ts, r.Xs, r.Ys, r.KEs, r.PEs, r.TEs>>

\* C1: for tend > 0 and h > 0, when integrate_orbit returns, each of the six
\* returned arrays has exactly floor(tend/h) + 1 entries and the driver has
\* stored to every index of them.
C1_LengthsAndWritten ==
    (Returned /\ args.tend > 0 /\ args.h > 0) =>
        /\ \A k \in 1..6 :
              DOMAIN Columns(result.val)[k] = 0..(args.tend \div args.h)
        /\ written = 0..(args.tend \div args.h)

\* a returned record of at least four rows
C1_Witness ==
    /\ Returned /\ args.tend > 0 /\ args.h > 0
    /\ Cardinality(DOMAIN result.val.ts) >= 4
    /\ Cardinality(written) >= 4

\* the state after one application of the selected stepper, as a value
StepValue(method, tt, zv, h, m) ==
    Stepper(method, "derivs", tt, Z0Ref, h, [isTuple |-> FALSE, v |-> <<m>>],
            <<zv>>)

RECURSIVE StateAfter(_)
StateAfter(i) ==
    IF i = 0 THEN args.z0
    ELSE LET s == StepValue(args.method, (i - 1) * args.h, StateAfter(i - 1),
                            args.h, args.m)
         IN  s.heap[s.ref]

\* C5: in the returned record entry 0 holds the initial condition and entry
\* i holds the state obtained by applying the selected stepper i times to z0
\* with step h, the i-th application called with time (i-1)*h, and
\* ts[i] = ts[i-1] + h = i*h.
C5_EntriesAreIteratedSteps ==
    Returned =>
        /\ result.val.ts[0] = 0
        /\ result.val.Xs[0] = args.z0[1]
        /\ result.val.Ys[0] = args.z0[2]
        /\ result.val.KEs[0] = kinetic_energy(Slice(args.z0, 3, 4))
        /\ result.val.PEs[0] = potential_energy(Slice(args.z0, 1, 2), args.m)
        /\ result.val.TEs[0] = total_energy(args.z0, args.m)
        /\ \A i \in 1..(Nsteps - 1) :
              /\ result.val.ts[i] = i * args.h
              /\ result.val.ts[i] = Add(result.val.ts[i - 1], args.h)
              /\ stepTimes[i] = (i - 1) * args.h
              /\ result.val.Xs[i] = StateAfter(i)[1]
              /\ result.val.Ys[i] = StateAfter(i)[2]
              /\ result.val.KEs[i] = kinetic_energy(Slice(StateAfter(i), 3, 4))
              /\ result.val.PEs[i] =
                    potential_energy(Slice(StateAfter(i), 1, 2), args.m)
              /\ result.val.TEs[i] = total_energy(StateAfter(i), args.m)

\* a returned record of at least three rows in which the body has moved
C5_Witness ==
    /\ Returned /\ Nsteps >= 3
    /\ result.val.Xs[2] # args.z0[1]
    /\ result.val.ts[2] = 2 * args.h

\* C8: integrate_orbit and the steppers leave the caller's array z0 as it
\* was, every step yields a new array and not z0 itself, and a second call
\* with the same arguments has the same outcome as the first.
C8_NoSideEffects ==
    /\ op \in {"integrate_orbit", "stepper"} => heap[Z0Ref] = args.z0
    /\ (op = "integrate_orbit" /\ pc = "loop" /\ step > 1) => z # Z0Ref
    /\ (op = "stepper" /\ pc = "done" /\ result.kind = "val") => z # Z0Ref
    /\ (op = "integrate_orbit" /\ pc = "done" /\ ncall > 1) => result = prev

\* a second call of many steps has returned
C8_Witness ==
    /\ Returned /\ ncall = 2 /\ Nsteps >= 4
    /\ prev.kind = "val"
    /\ heap[z] # args.z0

\* the exception the body of f raises
FExc(f) == IF f = "derivs" THEN "FloatingPointError" ELSE "ValueError"

\* C9: when f fails during a stage evaluation, the stepper yields no new
\* state and its caller sees f's exception; through integrate_orbit the
\* caller sees it too and gets no record.
C9_FailurePropagates ==
    (pc = "done" /\ result.ffail) =>
        /\ result.kind = "raise"
        /\ result.val = <<>>
        /\ op = "stepper" => result.exc = FExc(args.f)
        /\ op = "integrate_orbit" => result.exc = FExc("derivs")

\* derivs has failed inside a step of integrate_orbit
C9_Witness ==
    /\ pc = "done" /\ op = "integrate_orbit"
    /\ result.ffail /\ result.kind = "raise"
    /\ result.exc = "FloatingPointError"

\* C10: at every stored index the energy columns agree: TEs[i] is
\* KEs[i] + PEs[i], and all three come from the state that supplied Xs[i]
\* and Ys[i].
C10_EnergyColumnsConsistent ==
    (op = "integrate_orbit" /\ (pc = "loop" \/ Returned)) =>
        /\ Returned => result.val = rec
        /\ \A i \in written :
              /\ rec.TEs[i] = Add(rec.KEs[i], rec.PEs[i])
              /\ rec.PEs[i] = potential_energy(<<rec.Xs[i], rec.Ys[i]>>, args.m)
        /\ rec.Xs[step - 1] = heap[z][1]
        /\ rec.Ys[step - 1] = heap[z][2]
        /\ rec.KEs[step - 1] = kinetic_energy(Slice(heap[z], 3, 4))

\* a returned record with nonzero energies in its third row
C10_Witness ==
    /\ Returned /\ Nsteps >= 3
    /\ rec.KEs[2] # 0 /\ rec.PEs[2] # 0 /\ IsFinite(rec.TEs[2])

(***************************************************************************)
(* The formulas of section 4.1 for RK4 and RK2, for an f that takes the    *)
(* extra arguments x: [ok |-> every stage evaluation succeeds, val |-> the *)
(* new state].                                                             *)
(***************************************************************************)
RK4Formula(f, tt, zv, h, x) ==
    LET h2 == Div(h, TWO)
        k1 == CallF(f, tt, zv, x)
        k2 == CallF(f, Add(tt, h2), VAdd(zv, VScale(h2, k1.val)), x)
        k3 == CallF(f, Add(tt, h2), VAdd(zv, VScale(h2, k2.val)), x)
        k4 == CallF(f, Add(tt, h), VAdd(zv, VScale(h, k3.val)), x)
        sum == VAdd(VAdd(k1.val, VScale(TWO, k2.val)),
                    VAdd(VScale(TWO, k3.val), k4.val))
    IN  IF k1.kind = "val" /\ k2.kind = "val" /\ k3.kind = "val"
           /\ k4.kind = "val"
        THEN [ok |-> TRUE, val |-> VAdd(zv, VScale(Div(h, SIX), sum))]
        ELSE [ok |-> FALSE, val |-> <<>>]

RK2Formula(f, tt, zv, h, x) ==
    LET h2 == Div(h, TWO)
        k1 == CallF(f, tt, zv, x)
        k2 == CallF(f, Add(tt, h2), VAdd(zv, VScale(h2, k1.val)), x)
    IN  IF k1.kind = "val" /\ k2.kind = "val"
        THEN [ok |-> TRUE, val |-> VAdd(zv, VScale(h, k2.val))]
        ELSE [ok |-> FALSE, val |-> <<>>]

StepperDone(method) == pc = "done" /\ op = "stepper" /\ args.method = method

\* C2: rk4(f, t, z, h, args) returns the state
\* z + (h/6)*(k1 + 2*k2 + 2*k3 + k4), never None.
C2_Rk4ReturnsWeightedSum ==
    LET ref == RK4Formula(args.f, args.t, args.z0, args.h,
                          TupleOf(args.extra))
    IN  (StepperDone("RK4") /\ ref.ok /\ ~HasFault(ref.val)) =>
            /\ result.kind = "val"
            /\ result.val = ref.val

\* C3: rk2(f, t, z, h, args) returns z + h*k2 with k1 = f(t, z) and
\* k2 = f(t + h/2, z + (h/2)*k1); t is used only as an argument of f.
C3_Rk2MidpointFormula ==
    LET ref == RK2Formula(args.f, args.t, args.z0, args.h,
                          TupleOf(args.extra))
    IN  (StepperDone("RK2") /\ ref.ok /\ ~HasFault(ref.val)) =>
            /\ result.kind = "val"
            /\ result.val = ref.val

\* C4: every stepper of the registry calls f as f(t', z', *extra_args), so
\* a call whose extra arguments fit f never ends in a TypeError, and
\* integrate_orbit, which passes derivs with args=m, does not fail with a
\* TypeError in a step with any of 'Euler', 'RK2' and 'RK4'.
C4_CommonCallingContract ==
    /\ (pc = "done" /\ op = "stepper"
        /\ 2 + Len(TupleOf(args.extra)) = Arity(args.f)) =>
            ~(result.kind = "raise" /\ result.exc = "TypeError")
    /\ (pc = "done" /\ op = "integrate_orbit"
        /\ args.method \in integration_methods) =>
            ~(result.kind = "raise" /\ result.exc = "TypeError")

\* C6: integrate_orbit raises, and returns no record, whenever the method
\* name is not registered or one of h, tend, m is not positive.
C6_ConfigurationErrorRaised ==
    (pc = "done" /\ op = "integrate_orbit"
     /\ (\/ args.method \notin integration_methods
         \/ args.h <= 0 \/ args.tend <= 0 \/ args.m <= 0)) =>
        result.kind = "raise"

\* C7: set_initial_conditions(a, m, e) raises whenever e < 0, e >= 1,
\* a <= 0 or m <= 0; otherwise it returns z0 = [a*(1+e), 0, 0, vy0] with
\* vy0 = sqrt(2*eps0 + 2*m/x0) and eps0 = -m/(2a).
C7_PreconditionEnforced ==
    (pc = "done" /\ op = "set_initial_conditions") =>
        IF args.e < 0 \/ args.e >= ONE \/ args.a <= 0 \/ args.m <= 0
        THEN result.kind = "raise"
        ELSE /\ result.kind = "val"
             /\ result.val.eps0 = Div(Neg(args.m), Mul(TWO, args.a))
             /\ result.val.z0[1] = Mul(args.a, Add(ONE, args.e))
             /\ result.val.z0[2] = 0
             /\ result.val.z0[3] = 0
             /\ result.val.z0[4] =
                    Sqrt(Add(Mul(TWO, result.val.eps0),
                             Div(Mul(TWO, args.m), result.val.z0[1])))

====
